---- MODULE Spec2Model ----
(***************************************************************************)
(* NeuroChess: the action-space encoding (engine/utils.py), the game       *)
(* wrapper (engine/game.py), the neural-guided Monte Carlo tree search     *)
(* (engine/mcts.py) and the self-play loop (engine/self_play.py).          *)
(*                                                                         *)
(* The rules engine (python-chess) and the evaluator (the network) are     *)
(* outside the repository.  The rules engine is modelled as a small        *)
(* scripted game: a position is a kind of position plus the side to move,  *)
(* each kind has an ordered list of legal moves and a termination status,  *)
(* and each move leads to a fixed kind.  The evaluator is any policy and   *)
(* value drawn from small sets.                                            *)
(***************************************************************************)
EXTENDS Integers, Sequences, FiniteSets, TLC

\* ------------------------------------------------------------------ bounds

\* largest num_simulations handed to MCTS
MaxSimulations == 2

\* largest max_moves handed to play_game
MaxMoves == 4

\* evaluator policy entries are PolicyWeights/anything, weights in 0..MaxPolicyWeight
MaxPolicyWeight == 1

\* temperatures are 0 and 1/k for k in 1..MaxSharpness
MaxSharpness == 2

\* entries of the vectors handed to apply_temperature are 0..MaxEntry over a
\* common denominator
MaxEntry == 2

\* largest num_simulations handed to MCTS with the constant evaluator
MaxConstantSimulations == 5

\* largest num_games handed to generate_games
MaxGames == 2

\* largest number of expand calls made on one tree
MaxExpands == 2

\* ------------------------------------------------------- program constants

\* squares of the board: the 64 of from_square * 64 + to_square
NumSquares == 64

\* length of the policy and mask vectors
ActionSize == 4096

ActionIndices == 0 .. (ActionSize - 1)

\* config.MCTS_CONFIG['c_puct']
ConfigCPuct == 1

\* config.MCTS_CONFIG['num_simulations']
ConfigNumSimulations == 100

\* config.SELF_PLAY_CONFIG['max_moves']
ConfigMaxMoves == 400

\* config.SELF_PLAY_CONFIG['num_games']
ConfigNumGames == 100

\* config.SELF_PLAY_CONFIG['save_games']
ConfigSaveGames == TRUE

WHITE == TRUE

BLACK == FALSE

None == "None"

\* "no move": what index_to_move and search return in place of a move
NoMove == [from_square |-> -1, to_square |-> -1, promotion |-> None]

\* ------------------------------------------------------------ rules engine

\* chess.Move(from_square, to_square, promotion)
Move(f, t, p) == [from_square |-> f, to_square |-> t, promotion |-> p]

\* the promotion pieces, in the order the rules engine generates them and
\* index_to_move tries them
PromotionPieces == <<"QUEEN", "ROOK", "BISHOP", "KNIGHT">>

\* the same square seen from the other side of the board (ranks flipped)
MirrorSquare(s) == (7 - (s \div 8)) * 8 + (s % 8)

MirrorMove(m) == Move(MirrorSquare(m.from_square), MirrorSquare(m.to_square), m.promotion)

PromotionMoves(f, t) == [i \in 1 .. Len(PromotionPieces) |-> Move(f, t, PromotionPieces[i])]

Kinds == {"open", "open1", "kpromo", "promo", "drawn", "mate", "stale"}

\* list(board.legal_moves) for White to move, by kind of position.  A pawn
\* reaching the last rank has its four promotions and no plain move.
WhiteLegalMoves(kind) ==
    CASE kind = "open"   -> <<Move(6, 21, None), Move(12, 28, None), Move(11, 27, None)>>
      [] kind = "open1"  -> <<Move(7, 14, None)>>
      [] kind = "kpromo" -> <<Move(7, 14, None)>> \o PromotionMoves(48, 56)
      [] kind = "promo"  -> PromotionMoves(48, 56)
      [] kind = "drawn"  -> <<Move(7, 14, None)>>
      [] OTHER           -> <<>>

\* a board: the kind of position and board.turn
Board(kind, turn) == [kind |-> kind, turn |-> turn]

Boards == {Board(k, t) : k \in Kinds, t \in BOOLEAN}

\* list(board.legal_moves)
LegalMoves(board) ==
    IF board.turn = WHITE
    THEN WhiteLegalMoves(board.kind)
    ELSE [i \in 1 .. Len(WhiteLegalMoves(board.kind)) |-> MirrorMove(WhiteLegalMoves(board.kind)[i])]

\* move in board.legal_moves
IsLegal(move, board) == \E i \in 1 .. Len(LegalMoves(board)) : LegalMoves(board)[i] = move

\* board.is_game_over(): checkmate, stalemate, or a draw the rules engine
\* declares by itself (insufficient material) while moves remain
BoardIsGameOver(board) == board.kind \in {"mate", "stale", "drawn"}

\* board.result(): the checkmated side is the side to move
BoardResult(board) ==
    CASE board.kind = "mate" -> (IF board.turn = WHITE THEN "0-1" ELSE "1-0")
      [] board.kind \in {"stale", "drawn"} -> "1/2-1/2"
      [] OTHER -> "*"

\* the kind of position the i-th legal move leads to
NextKind(kind, i) ==
    CASE kind = "open"   -> <<"open1", "kpromo", "promo">>[i]
      [] kind = "open1"  -> "mate"
      [] kind = "kpromo" -> <<"open", "open1", "stale", "drawn", "mate">>[i]
      [] kind = "promo"  -> <<"drawn", "open", "mate", "stale">>[i]
      [] OTHER           -> "drawn"

MoveNumber(move, board) == CHOOSE i \in 1 .. Len(LegalMoves(board)) : LegalMoves(board)[i] = move

\* board.push(move), for a legal move
Push(board, move) == Board(NextKind(board.kind, MoveNumber(move, board)), ~board.turn)

\* ------------------------------------------------------------- ActionSpace

\* utils.move_to_index
move_to_index(move, board) == move.from_square * NumSquares + move.to_square

RECURSIVE FirstLegalPromotion(_, _, _, _)
\* the loop of index_to_move over the promotion pieces, from piece number i
FirstLegalPromotion(from_square, to_square, board, i) ==
    IF i > Len(PromotionPieces) THEN NoMove
    ELSE IF IsLegal(Move(from_square, to_square, PromotionPieces[i]), board)
         THEN Move(from_square, to_square, PromotionPieces[i])
         ELSE FirstLegalPromotion(from_square, to_square, board, i + 1)

index_to_move_unchecked(index, board) == Move(index \div NumSquares, index % NumSquares, None)

\* utils.index_to_move
index_to_move(index, board) ==
    LET from_square == index \div NumSquares
        to_square == index % NumSquares
    IN  IF IsLegal(Move(from_square, to_square, None), board)
        THEN Move(from_square, to_square, None)
        ELSE FirstLegalPromotion(from_square, to_square, board, 1)

\* np.zeros(ActionSize): a vector is kept as the function of the entries
\* written so far; every other entry is 0
Zeros == << >>

VecAt(vec, i) == IF i \in DOMAIN vec THEN vec[i] ELSE 0

VecSet(vec, i, x) == (i :> x) @@ vec

RECURSIVE MaskLoop(_, _, _, _)
\* the loop of create_move_mask over the legal moves, from move number i
MaskLoop(moves, board, mask, i) ==
    IF i > Len(moves) THEN mask
    ELSE MaskLoop(moves, board, VecSet(mask, move_to_index(moves[i], board), 1), i + 1)

create_move_mask_plain_only(board) ==
    MaskLoop(SelectSeq(LegalMoves(board), LAMBDA m : m.promotion = None), board, Zeros, 1)

\* utils.create_move_mask
create_move_mask(board) == MaskLoop(LegalMoves(board), board, Zeros, 1)

\* ------------------------------------------------------------ temperature

\* A vector of reals: entry i is w[i] / (den + 1e-8 * epsd), with w the
\* integer numerators of the entries written (0 elsewhere).  epsd = 0 for a
\* vector no "+ 1e-8" quotient has produced.
Vec(w, den, epsd) == [w |-> w, den |-> den, epsd |-> epsd]

RECURSIVE SetSum(_, _)
SetSum(f, S) == IF S = {} THEN 0 ELSE LET x == CHOOSE y \in S : TRUE IN f[x] + SetSum(f, S \ {x})

\* numerator of vec.sum()
VecSum(w) == SetSum(w, DOMAIN w)

RECURSIVE Pow(_, _)
Pow(x, k) == IF k = 0 THEN 1 ELSE x * Pow(x, k - 1)

\* a temperature num/den; the model draws 0 and 1/k
Temperature(num, den) == [num |-> num, den |-> den]

Returned(value) == [raised |-> "no", value |-> value]

Raised(error) == [raised |-> error, value |-> Vec(Zeros, 1, 0)]

\* policy ** (1.0 / temperature), then policy / (policy.sum() + 1e-8), for a
\* policy with exact entries and a temperature 1/k
Sharpen(policy, k) ==
    LET powered == [i \in DOMAIN policy.w |-> Pow(policy.w[i], k)]
    IN  Vec(powered, VecSum(powered), Pow(policy.den, k))

apply_temperature_always_normalizes(policy, temperature) ==
    IF temperature.num = 0
    THEN Raised("ZeroDivisionError")
    ELSE Returned(Sharpen(policy, temperature.den \div temperature.num))

\* utils.apply_temperature
apply_temperature(policy, temperature) ==
    IF temperature.num = temperature.den
    THEN Returned(policy)
    ELSE IF temperature.num = 0
         THEN Raised("ZeroDivisionError")
         ELSE Returned(Sharpen(policy, temperature.den \div temperature.num))

\* ---------------------------------------------------------------- numbers

Abs(x) == IF x < 0 THEN -x ELSE x

\* the greatest common divisor of two naturals, by Euclid's algorithm
GCD(a, b) ==
    LET gcd[x \in Nat, y \in Nat] == IF y = 0 THEN x ELSE gcd[y, x % y]
    IN  gcd[a, b]

\* the real number n/d (d # 0), in lowest terms with a positive denominator
Rat(n, d) ==
    LET lowest[x \in Int, y \in Int] ==
            LET g == GCD(Abs(x), Abs(y))
                sign == IF y < 0 THEN -1 ELSE 1
            IN  [num |-> (sign * x) \div g, den |-> (sign * y) \div g]
    IN  lowest[n, d]

RZero == Rat(0, 1)

ROne == Rat(1, 1)

\* The operations reduce by common factors before they multiply, so that
\* the products stay small.
RAdd(a, b) ==
    LET g == GCD(a.den, b.den)
    IN  Rat(a.num * (b.den \div g) + b.num * (a.den \div g), (a.den \div g) * b.den)

RNeg(a) == Rat(-a.num, a.den)

RSub(a, b) == RAdd(a, RNeg(b))

RMul(a, b) ==
    LET g1 == GCD(Abs(a.num), b.den)
        g2 == GCD(Abs(b.num), a.den)
    IN  Rat((a.num \div g1) * (b.num \div g2), (a.den \div g2) * (b.den \div g1))

RDiv(a, b) == RMul(a, Rat(b.den, b.num))

RLess(a, b) ==
    LET g == GCD(a.den, b.den)
    IN  a.num * (b.den \div g) < b.num * (a.den \div g)

RECURSIVE RSeqSum(_, _)
\* the sum of the first n entries of a sequence of reals
RSeqSum(seq, n) == IF n = 0 THEN RZero ELSE RAdd(RSeqSum(seq, n - 1), seq[n])

RECURSIVE FractionLess(_, _, _, _)
\* a/b < c/d for a, c >= 0 and b, d > 0, by the whole parts and then the
\* remainders (no product is formed)
FractionLess(a, b, c, d) ==
    IF (a \div b) # (c \div d) THEN (a \div b) < (c \div d)
    ELSE IF c % d = 0 THEN FALSE
         ELSE IF a % b = 0 THEN TRUE
              ELSE FractionLess(d, c % d, b, a % b)

\* quotient and remainder of n * q by p, for q <= p, by doubling (the
\* product is not formed)
MulDivMod(n, q, p) ==
    LET f[k \in Nat] ==
            IF k = 0 THEN [quot |-> 0, rem |-> 0]
            ELSE LET h == f[k \div 2]
                     t == 2 * h.rem + (k % 2) * (q % p)
                 IN  [quot |-> 2 * h.quot + (k % 2) * (q \div p) + (t \div p), rem |-> t % p]
    IN  f[n]

\* i1 + a/b < i2 + c/d, for whole parts i1, i2 and fractions a/b, c/d below 1
MixedLess(i1, a, b, i2, c, d) == IF i1 # i2 THEN i1 < i2 ELSE FractionLess(a, b, c, d)

\* r * r > n and r * r < n, for a real r > 0 and an integer n >= 1: r is
\* compared with n / r
SquareGreater(r, n) ==
    /\ r.num >= r.den
    /\ LET m == MulDivMod(n, r.den, r.num)
       IN  MixedLess(m.quot, m.rem, r.num, r.num \div r.den, r.num % r.den, r.den)

SquareLess(r, n) ==
    \/ r.num < r.den
    \/ LET m == MulDivMod(n, r.den, r.num)
       IN  MixedLess(r.num \div r.den, r.num % r.den, r.den, m.quot, m.rem, r.num)

\* x > y * sqrt(n), for reals x, y and an integer n >= 0
GreaterThanTimesSqrt(x, y, n) ==
    IF y.num = 0 \/ n = 0
    THEN x.num > 0
    ELSE IF y.num > 0
         THEN x.num > 0 /\ SquareGreater(RDiv(x, y), n)
         ELSE x.num >= 0 \/ SquareLess(RDiv(x, y), n)

\* ---------------------------------------------------------------- ChessGame

\* a ChessGame: its board and its move_history
ChessGame(board, move_history) == [board |-> board, move_history |-> move_history]

\* ChessGame.get_board
get_board(game) == game.board

\* ChessGame.get_legal_moves
get_legal_moves(game) == LegalMoves(game.board)

\* ChessGame.is_game_over
is_game_over(game) == BoardIsGameOver(game.board)

\* ChessGame.copy
copy(game) == ChessGame(game.board, game.move_history)

\* ChessGame.make_move: the game after the call
make_move(game, move) ==
    IF IsLegal(move, game.board)
    THEN ChessGame(Push(game.board, move), Append(game.move_history, move))
    ELSE game

\* an Optional[float]
NoResult == [is_none |-> TRUE, value |-> 0]

Result(v) == [is_none |-> FALSE, value |-> v]

\* ChessGame.get_result
get_result(game) ==
    IF ~is_game_over(game) THEN NoResult
    ELSE LET result == BoardResult(game.board)
         IN  IF result = "1-0"
             THEN Result(IF game.board.turn = BLACK THEN 1 ELSE -1)
             ELSE IF result = "0-1"
                  THEN Result(IF game.board.turn = WHITE THEN 1 ELSE -1)
                  ELSE Result(0)

\* ----------------------------------------------------------------- MCTSNode

\* A node is named by its path from the root: the numbers of the children
\* taken, in the insertion order of each children dict.  children holds the
\* keys of the dict in insertion order; the child for children[i] is the
\* node Append(path, i).
MCTSNode(game, move, prior) ==
    [game |-> game, move |-> move, children |-> <<>>,
     visit_count |-> 0, value_sum |-> 0, prior |-> prior]

Root == <<>>

Parent(path) == SubSeq(path, 1, Len(path) - 1)

\* MCTSNode.is_expanded
is_expanded(node) == Len(node.children) > 0

\* MCTSNode.get_value
get_value(node) ==
    IF node.visit_count = 0 THEN RZero ELSE Rat(node.value_sum, node.visit_count)

ExplorationFactor_negated(child, c_puct) ==
    RNeg(RDiv(RMul(Rat(c_puct, 1), child.prior), Rat(1 + child.visit_count, 1)))

\* the factor of sqrt(self.visit_count) in the u of select_child
ExplorationFactor(child, c_puct) ==
    RDiv(RMul(Rat(c_puct, 1), child.prior), Rat(1 + child.visit_count, 1))

\* score(a) > score(b) in select_child, for children a, b of a node visited n times
ScoreGreater(a, b, c_puct, n) ==
    GreaterThanTimesSqrt(RSub(get_value(a), get_value(b)),
                         RSub(ExplorationFactor(b, c_puct), ExplorationFactor(a, c_puct)), n)

RECURSIVE SelectLoop_last_of_ties(_, _, _, _, _)
SelectLoop_last_of_ties(tree, path, c_puct, i, best) ==
    IF i > Len(tree[path].children) THEN best
    ELSE IF best = 0 \/ ~ScoreGreater(tree[Append(path, best)], tree[Append(path, i)],
                                      c_puct, tree[path].visit_count)
         THEN SelectLoop_last_of_ties(tree, path, c_puct, i + 1, i)
         ELSE SelectLoop_last_of_ties(tree, path, c_puct, i + 1, best)

RECURSIVE SelectLoop(_, _, _, _, _)
\* the loop of select_child from child number i; best is the number of the
\* best child so far (0: none, best_score = -inf)
SelectLoop(tree, path, c_puct, i, best) ==
    IF i > Len(tree[path].children) THEN best
    ELSE IF best = 0 \/ ScoreGreater(tree[Append(path, i)], tree[Append(path, best)],
                                     c_puct, tree[path].visit_count)
         THEN SelectLoop(tree, path, c_puct, i + 1, i)
         ELSE SelectLoop(tree, path, c_puct, i + 1, best)

\* MCTSNode.select_child: the path of the selected child
select_child(tree, path, c_puct) == Append(path, SelectLoop(tree, path, c_puct, 1, 0))

\* policy[idx] for a policy kept as the reals written (0 elsewhere)
PolicyAt(policy, idx) == IF idx \in DOMAIN policy THEN policy[idx] ELSE RZero

ExpandPriors_first_move_fallback(game, policy) ==
    LET legal_moves == get_legal_moves(game)
        move_mask == create_move_mask(get_board(game))
        legal_policy == [i \in 1 .. Len(legal_moves) |->
            LET idx == move_to_index(legal_moves[i], get_board(game))
            IN  RMul(PolicyAt(policy, idx), Rat(VecAt(move_mask, idx), 1))]
        total == RSeqSum(legal_policy, Len(legal_moves))
    IN  IF RLess(RZero, total)
        THEN [i \in 1 .. Len(legal_moves) |-> RDiv(legal_policy[i], total)]
        ELSE [i \in 1 .. Len(legal_moves) |-> IF i = 1 THEN ROne ELSE RZero]

\* the priors expand gives the children, in the order of the legal moves
ExpandPriors(game, policy) ==
    LET legal_moves == get_legal_moves(game)
        move_mask == create_move_mask(get_board(game))
        legal_policy == [i \in 1 .. Len(legal_moves) |->
            LET idx == move_to_index(legal_moves[i], get_board(game))
            IN  RMul(PolicyAt(policy, idx), Rat(VecAt(move_mask, idx), 1))]
        total == RSeqSum(legal_policy, Len(legal_moves))
    IN  IF RLess(RZero, total)
        THEN [i \in 1 .. Len(legal_moves) |-> RDiv(legal_policy[i], total)]
        ELSE [i \in 1 .. Len(legal_moves) |-> Rat(1, Len(legal_moves))]

\* MCTSNode.expand: the tree after node `path` is expanded with `policy`
expand(tree, path, policy) ==
    LET game == tree[path].game
        legal_moves == get_legal_moves(game)
        priors == ExpandPriors(game, policy)
        created == {Append(path, i) : i \in 1 .. Len(legal_moves)}
    IN  [q \in (DOMAIN tree) \cup created |->
            IF q \in created
            THEN LET move == legal_moves[q[Len(q)]]
                 IN  MCTSNode(make_move(copy(game), move), move, priors[q[Len(q)]])
            ELSE IF q = path
                 THEN [tree[q] EXCEPT !.children = legal_moves]
                 ELSE tree[q]]

RECURSIVE backpropagate_skips_root(_, _, _)
backpropagate_skips_root(tree, path, value) ==
    IF path = Root THEN tree
    ELSE backpropagate_skips_root([tree EXCEPT ![path].visit_count = @ + 1,
                                               ![path].value_sum = @ + value],
                                  Parent(path), -value)

backpropagate_node_only(tree, path, value) ==
    [tree EXCEPT ![path].visit_count = @ + 1, ![path].value_sum = @ + value]

RECURSIVE backpropagate_no_flip(_, _, _)
backpropagate_no_flip(tree, path, value) ==
    LET visited == [tree EXCEPT ![path].visit_count = @ + 1,
                                ![path].value_sum = @ + value]
    IN  IF path # Root
        THEN backpropagate_no_flip(visited, Parent(path), value)
        ELSE visited

RECURSIVE backpropagate(_, _, _)
\* MCTSNode.backpropagate: the tree after the walk from node `path` to the root
backpropagate(tree, path, value) ==
    LET visited == [tree EXCEPT ![path].visit_count = @ + 1,
                                ![path].value_sum = @ + value]
    IN  IF path # Root
        THEN backpropagate(visited, Parent(path), -value)
        ELSE visited

\* --------------------------------------------------------------------- MCTS

\* config.MCTS_CONFIG['temperature']
ConfigTemperature == Temperature(1, 1)

\* config.MCTS_CONFIG['dirichlet_epsilon']
dirichlet_epsilon == Rat(1, 4)

\* MCTS.__init__: num_simulations or config.MCTS_CONFIG['num_simulations']
\* (None is 0 here: both are false for "or")
InitNumSimulations(num_simulations) ==
    IF num_simulations = 0 THEN ConfigNumSimulations ELSE num_simulations

\* MCTS.__init__: temperature or config.MCTS_CONFIG['temperature']
InitTemperature(temperature) ==
    IF temperature.num = 0 THEN ConfigTemperature ELSE temperature

\* an index no legal move of any board has: the evaluator's mass on illegal moves
IllegalIndex == ActionSize - 1

LegalIndices(board) ==
    {move_to_index(LegalMoves(board)[i], board) : i \in 1 .. Len(LegalMoves(board))}

RECURSIVE RSetSum(_, _)
RSetSum(f, S) ==
    IF S = {} THEN RZero ELSE LET x == CHOOSE y \in S : TRUE IN RAdd(f[x], RSetSum(f, S \ {x}))

\* model.predict: the policies the evaluator may return for a board, as
\* reals written at the legal indices and at IllegalIndex, summing to 1
EvaluatorPolicies(board) ==
    {[idx \in LegalIndices(board) \cup {IllegalIndex} |->
         Rat(IF idx = IllegalIndex THEN 1 ELSE w[idx], SetSum(w, LegalIndices(board)) + 1)] :
     w \in [LegalIndices(board) -> 0 .. MaxPolicyWeight]}

\* model.predict: the values the evaluator may return
EvaluatorValues == {-1, 0, 1}

\* model.predict of the constant evaluator: the policy uniform over all
\* indices, read at the legal indices and at IllegalIndex
ConstantPolicy(board) ==
    [idx \in LegalIndices(board) \cup {IllegalIndex} |-> Rat(1, ActionSize)]

\* self.model.predict: the policies the model may return for a board
ModelPolicies(model, board) ==
    IF model = "constant" THEN {ConstantPolicy(board)} ELSE EvaluatorPolicies(board)

\* self.model.predict: the values the model may return
ModelValues(model) == IF model = "constant" THEN {0} ELSE EvaluatorValues

\* np.random.dirichlet over k legal moves: the samples drawn are the uniform
\* one and those with one move weighted double
DirichletSamples(k) ==
    {[i \in 1 .. k |-> Rat(IF i = j THEN 2 ELSE 1, IF j = 0 THEN k ELSE k + 1)] : j \in 0 .. k}

RECURSIVE NoiseLoop(_, _, _, _, _)
\* the loop of search that blends the noise into the root policy, from move number i
NoiseLoop(policy, board, move_mask, dirichlet_noise, i) ==
    IF i > Len(LegalMoves(board)) THEN policy
    ELSE LET idx == move_to_index(LegalMoves(board)[i], board)
             blended == RAdd(RMul(RSub(ROne, dirichlet_epsilon), PolicyAt(policy, idx)),
                             RMul(dirichlet_epsilon, dirichlet_noise[i]))
             masked == RMul(blended, Rat(VecAt(move_mask, idx), 1))
         IN  NoiseLoop((idx :> masked) @@ policy, board, move_mask, dirichlet_noise, i + 1)

\* policy / (policy.sum() + 1e-8).  The 1e-8 changes the one positive factor
\* all entries are multiplied by; the entries are kept up to that factor.
Renormalize(policy) ==
    LET sum == RSetSum(policy, DOMAIN policy)
    IN  IF sum.num = 0 THEN policy
        ELSE [idx \in DOMAIN policy |-> RDiv(policy[idx], sum)]

\* search, lines 149-168: the policy the root is expanded with
RootPolicy(game, policy, dirichlet_noise) ==
    IF Len(get_legal_moves(game)) > 0
    THEN Renormalize(NoiseLoop(policy, get_board(game), create_move_mask(get_board(game)),
                               dirichlet_noise, 1))
    ELSE policy

RECURSIVE Selection(_, _, _)
\* search, lines 174-178: the node the selection reaches from node `path`
Selection(tree, path, c_puct) ==
    IF is_expanded(tree[path]) /\ ~is_game_over(tree[path].game)
    THEN Selection(tree, select_child(tree, path, c_puct), c_puct)
    ELSE path

TerminalValue_none_as_loss(game) ==
    LET value == get_result(game) IN IF value.is_none THEN -1 ELSE value.value

\* search, lines 181-184: the value of a node whose game is over
TerminalValue(game) ==
    LET value == get_result(game) IN IF value.is_none THEN 0 ELSE value.value

RECURSIVE VisitCountLoop(_, _, _, _)
\* search, lines 195-198: the loop over root.children.items(), from child number i
VisitCountLoop(tree, board, visit_counts, i) ==
    IF i > Len(tree[Root].children) THEN visit_counts
    ELSE VisitCountLoop(tree, board,
                        VecSet(visit_counts, move_to_index(tree[Root].children[i], board),
                               tree[<<i>>].visit_count),
                        i + 1)

RECURSIVE UniformLoop(_, _, _, _)
\* search, lines 206-209: the loop of the uniform fallback, numerators over
\* the denominator len(legal_moves)
UniformLoop(legal_moves, board, visit_counts, i) ==
    IF i > Len(legal_moves) THEN visit_counts
    ELSE UniformLoop(legal_moves, board,
                     VecSet(visit_counts, move_to_index(legal_moves[i], board), 1), i + 1)

\* search, lines 195-209: the normalized visit counts
NormalizedVisitCounts(tree, game) ==
    LET visit_counts == VisitCountLoop(tree, get_board(game), Zeros, 1)
        total_visits == VecSum(visit_counts)
        legal_moves == get_legal_moves(game)
    IN  IF total_visits > 0
        THEN Vec(visit_counts, total_visits, 0)
        ELSE IF Len(legal_moves) > 0
             THEN Vec(UniformLoop(legal_moves, get_board(game), visit_counts, 1),
                      Len(legal_moves), 0)
             ELSE Vec(visit_counts, 1, 0)

RECURSIVE BestMoveLoop_last_of_ties(_, _, _, _, _)
BestMoveLoop_last_of_ties(legal_moves, board, w, i, best) ==
    IF i > Len(legal_moves) THEN best
    ELSE LET score == VecAt(w, move_to_index(legal_moves[i], board))
             best_score == IF best = 0 THEN -1
                           ELSE VecAt(w, move_to_index(legal_moves[best], board))
         IN  BestMoveLoop_last_of_ties(legal_moves, board, w, i + 1,
                                       IF score >= best_score THEN i ELSE best)

RECURSIVE BestMoveLoop(_, _, _, _, _)
\* search, lines 219-226: the loop over the legal moves from move number i;
\* best is the number of the best move so far (0: none, best_score = -1)
BestMoveLoop(legal_moves, board, w, i, best) ==
    IF i > Len(legal_moves) THEN best
    ELSE LET score == VecAt(w, move_to_index(legal_moves[i], board))
             best_score == IF best = 0 THEN -1
                           ELSE VecAt(w, move_to_index(legal_moves[best], board))
         IN  BestMoveLoop(legal_moves, board, w, i + 1, IF score > best_score THEN i ELSE best)

\* search, lines 214-228: the move returned with the target visit_counts
BestMove(game, visit_counts) ==
    LET legal_moves == get_legal_moves(game)
    IN  IF Len(legal_moves) = 0 THEN NoMove
        ELSE LET best == BestMoveLoop(legal_moves, get_board(game), visit_counts.w, 1, 0)
             IN  IF best = 0 THEN NoMove ELSE legal_moves[best]

\* ------------------------------------------------------------------ objects

\* The objects of a tree: the chess.Board objects (boards[b] is the position
\* board b holds now) and the ChessGame objects (games[g].board is the board
\* object game g refers to).  An object is named by its number.
Objects(boards, games) == [boards |-> boards, games |-> games]

\* the ChessGame a game object stands for now
GameOf(objects, g) ==
    ChessGame(objects.boards[objects.games[g].board], objects.games[g].move_history)

copy_object_shared_board(objects, g) ==
    Objects(objects.boards,
            Append(objects.games, [board |-> objects.games[g].board,
                                   move_history |-> objects.games[g].move_history]))

\* ChessGame.copy on game object g: a new ChessGame whose board is a new
\* board object (self.board.copy()) and whose move_history is a new list;
\* the new game is the last of games
copy_object(objects, g) ==
    Objects(Append(objects.boards, objects.boards[objects.games[g].board]),
            Append(objects.games, [board |-> Len(objects.boards) + 1,
                                   move_history |-> objects.games[g].move_history]))

\* ChessGame.make_move on game object g: its board object is pushed in place
make_move_object(objects, g, move) ==
    LET b == objects.games[g].board
    IN  IF IsLegal(move, objects.boards[b])
        THEN Objects([objects.boards EXCEPT ![b] = Push(@, move)],
                     [objects.games EXCEPT ![g].move_history = Append(@, move)])
        ELSE objects

\* the policies handed to expand: any reals, negative ones too, at the legal
\* indices, and mass on an illegal index
ExpandPolicies(board) ==
    {[idx \in LegalIndices(board) \cup {IllegalIndex} |->
         Rat(IF idx = IllegalIndex THEN 1 ELSE w[idx], 2)] :
     w \in [LegalIndices(board) -> -1 .. MaxPolicyWeight]}

\* ----------------------------------------------------------------- SelfPlay

\* utils.board_to_tensor: the planes of the pieces (fixed by the kind of
\* position) and the plane of the side to move (1 for White)
board_to_tensor(board) ==
    [pieces |-> board.kind, side_to_move |-> IF board.turn = WHITE THEN 1 ELSE 0]

\* self.mcts.search(game) as play_game sees it: a target over the legal
\* indices (each index holding a share 0 or 1 of the visits, not all 0) and
\* the move the selection loop of search returns for that target
SearchReturns(game) ==
    {[move |-> BestMove(game, Vec(w, VecSum(w), 0)), visit_counts |-> Vec(w, VecSum(w), 0)] :
        w \in {v \in [LegalIndices(get_board(game)) -> 0 .. 1] : VecSum(v) > 0}}

\* play_game: max_moves or config.SELF_PLAY_CONFIG['max_moves']
InitMaxMoves(max_moves) == IF max_moves = 0 THEN ConfigMaxMoves ELSE max_moves

\* play_game, lines 69-75: the records with their results
FinalData(game_data, result) ==
    [k \in 1 .. Len(game_data) |->
        LET i == k - 1
            is_white_move == (i % 2 = 0)
        IN  [board_state |-> game_data[k].board_state,
             policy |-> game_data[k].policy,
             position_result |-> IF is_white_move THEN result ELSE -result]]

\* generate_games: num_games or config.SELF_PLAY_CONFIG['num_games']
InitNumGames(num_games) == IF num_games = 0 THEN ConfigNumGames ELSE num_games

\* generate_games: save if save is not None else config.SELF_PLAY_CONFIG['save_games']
InitSave(save) == IF save = None THEN ConfigSaveGames ELSE (save = "True")

\* self.play_game() as generate_games sees it: between 1 and MaxMoves
\* records, board_state and policy standing for the ply they belong to,
\* with the results play_game gives them
PlayGameReturns ==
    {FinalData([k \in 1 .. n |-> [board_state |-> k - 1, policy |-> k - 1]], result) :
        n \in 1 .. MaxMoves, result \in {-1, 0, 1}}

\* the file generate_games writes: its name carries len(all_data)
GameDataFile(all_data) ==
    [positions |-> Len(all_data), content |-> all_data]

\* ------------------------------------------------------------------- state

VARIABLES
    \* ActionSpace: the board, the operation applied, its argument and result
    as_board, as_op, as_arg, as_ret,
    \* apply_temperature: the arguments, whether it was applied, and its result
    tp_policy, tp_temperature, tp_op, tp_ret,
    \* MCTS.search: where the call stands ("new", "searching", "returned")
    s_pc,
    \* the model MCTS was constructed with ("any": a network of any
    \* weights; "constant": uniform policy and value 0)
    s_model,
    \* the arguments MCTS was constructed with
    s_args,
    \* the MCTS object: num_simulations, c_puct, temperature
    s_mcts,
    \* the ChessGame handed to search
    s_game,
    \* the tree: path -> MCTSNode
    s_tree,
    \* iterations of the simulation loop completed
    s_sims,
    \* the node the last simulation reached, and the value it backed up
    s_reached, s_value,
    \* what search returned: the move and the target
    s_ret,
    \* the nodes self.model.predict has been called for
    s_evaluated,
    \* play_game: where the call stands ("loop", "break", "done")
    pg_pc,
    \* play_game: max_moves, game, game_data, move_count, result, final_data
    pg_max_moves, pg_game, pg_game_data, pg_move_count, pg_result, pg_final_data,
    \* generate_games: where the call stands ("loop", "returned")
    g_pc,
    \* the arguments of the call, and num_games and save after their defaults
    g_args, g_num_games, g_save,
    \* games played, all_data, and the files in game_data_dir
    g_game_idx, g_all_data, g_files,
    \* what generate_games returned
    g_ret,
    \* expand: where the call stands ("ready", "expanding")
    e_pc,
    \* the board and game objects, and the nodes: path -> game object, move,
    \* children, prior
    e_objects, e_nodes,
    \* the node being expanded, its policy, legal_moves and legal_policy, and
    \* the number of children created so far
    e_node, e_policy, e_legal_moves, e_legal_policy, e_i,
    \* expand calls completed
    e_expands

as_vars == <<as_board, as_op, as_arg, as_ret>>

tp_vars == <<tp_policy, tp_temperature, tp_op, tp_ret>>

s_vars == <<s_pc, s_model, s_args, s_mcts, s_game, s_tree, s_sims, s_reached, s_value, s_ret,
           s_evaluated>>

pg_vars == <<pg_pc, pg_max_moves, pg_game, pg_game_data, pg_move_count, pg_result, pg_final_data>>

g_vars == <<g_pc, g_args, g_num_games, g_save, g_game_idx, g_all_data, g_files, g_ret>>

e_vars == <<e_pc, e_objects, e_nodes, e_node, e_policy, e_legal_moves, e_legal_policy, e_i, e_expands>>

vars == <<as_vars, tp_vars, s_vars, pg_vars, g_vars, e_vars>>

\* the action-space variables while another specification runs
ActionIdle ==
    /\ as_board = Board("open", WHITE)
    /\ as_op = "idle"
    /\ as_arg = NoMove
    /\ as_ret = NoMove

\* the temperature variables while another specification runs
TemperatureIdle ==
    /\ tp_policy = Vec(Zeros, 1, 0)
    /\ tp_temperature = Temperature(1, 1)
    /\ tp_op = "idle"
    /\ tp_ret = Returned(Vec(Zeros, 1, 0))

NoTree == [path \in {} |-> 0]

\* the play_game variables while another specification runs
PlayIdle ==
    /\ pg_pc = "idle"
    /\ pg_max_moves = 1
    /\ pg_game = ChessGame(Board("open", WHITE), <<>>)
    /\ pg_game_data = <<>>
    /\ pg_move_count = 0
    /\ pg_result = 0
    /\ pg_final_data = <<>>

\* the generate_games variables while another specification runs
GenerateIdle ==
    /\ g_pc = "idle"
    /\ g_args = [num_games |-> 1, save |-> None]
    /\ g_num_games = 1
    /\ g_save = FALSE
    /\ g_game_idx = 0
    /\ g_all_data = <<>>
    /\ g_files = {}
    /\ g_ret = <<>>

\* a node of the object-level tree
ObjectNode(g, move, prior) == [game |-> g, move |-> move, children |-> <<>>, prior |-> prior]

\* the expand variables while another specification runs
ExpandIdle ==
    /\ e_pc = "idle"
    /\ e_objects = Objects(<<>>, <<>>)
    /\ e_nodes = NoTree
    /\ e_node = Root
    /\ e_policy = <<>>
    /\ e_legal_moves = <<>>
    /\ e_legal_policy = <<>>
    /\ e_i = 0
    /\ e_expands = 0

\* the search variables while another specification runs
SearchIdle ==
    /\ s_pc = "idle"
    /\ s_model = "any"
    /\ s_args = [num_simulations |-> 1, temperature |-> Temperature(1, 1)]
    /\ s_mcts = [num_simulations |-> 1, c_puct |-> ConfigCPuct, temperature |-> ConfigTemperature]
    /\ s_game = ChessGame(Board("open", WHITE), <<>>)
    /\ s_tree = NoTree
    /\ s_sims = 0
    /\ s_reached = Root
    /\ s_value = 0
    /\ s_ret = [move |-> NoMove, visit_counts |-> Vec(Zeros, 1, 0)]
    /\ s_evaluated = {}

\* ---------------------------------------------- ActionSpace specification

\* a board is drawn, then one operation of the action space is applied to it
ActionInit ==
    /\ as_board \in Boards
    /\ as_op = "none"
    /\ as_arg = NoMove
    /\ as_ret = NoMove
    /\ TemperatureIdle
    /\ SearchIdle
    /\ PlayIdle
    /\ GenerateIdle
    /\ ExpandIdle

Encode ==
    /\ as_op = "none"
    /\ \E i \in 1 .. Len(LegalMoves(as_board)) :
          /\ as_arg' = LegalMoves(as_board)[i]
          /\ as_ret' = move_to_index(LegalMoves(as_board)[i], as_board)
    /\ as_op' = "move_to_index"
    /\ UNCHANGED as_board

Decode ==
    /\ as_op = "none"
    /\ \E index \in ActionIndices :
          /\ as_arg' = index
          /\ as_ret' = index_to_move(index, as_board)
    /\ as_op' = "index_to_move"
    /\ UNCHANGED as_board

RoundTrip ==
    /\ as_op = "none"
    /\ \E i \in 1 .. Len(LegalMoves(as_board)) :
          /\ as_arg' = LegalMoves(as_board)[i]
          /\ as_ret' = index_to_move(move_to_index(LegalMoves(as_board)[i], as_board), as_board)
    /\ as_op' = "round_trip"
    /\ UNCHANGED as_board

Mask ==
    /\ as_op = "none"
    /\ as_op' = "create_move_mask"
    /\ as_arg' = NoMove
    /\ as_ret' = create_move_mask(as_board)
    /\ UNCHANGED as_board

ActionNext ==
    \/ Encode /\ UNCHANGED <<tp_vars, s_vars, pg_vars, g_vars, e_vars>>
    \/ Decode /\ UNCHANGED <<tp_vars, s_vars, pg_vars, g_vars, e_vars>>
    \/ RoundTrip /\ UNCHANGED <<tp_vars, s_vars, pg_vars, g_vars, e_vars>>
    \/ Mask /\ UNCHANGED <<tp_vars, s_vars, pg_vars, g_vars, e_vars>>

SpecAction == ActionInit /\ [][ActionNext]_vars

\* ---------------------------------------------- temperature specification

\* the three indices the drawn vectors are written at
TemperatureIndices == {0, 1, ActionSize - 1}

\* the vectors drawn: numerators 0..MaxEntry over their sum (a distribution),
\* not all zero
TemperaturePolicies ==
    {Vec(w, VecSum(w), 0) : w \in {v \in [TemperatureIndices -> 0 .. MaxEntry] : VecSum(v) > 0}}

Temperatures == {Temperature(0, 1)} \cup {Temperature(1, k) : k \in 1 .. MaxSharpness}

\* a vector and a temperature are drawn, then apply_temperature is applied
TemperatureInit ==
    /\ tp_policy \in TemperaturePolicies
    /\ tp_temperature \in Temperatures
    /\ tp_op = "none"
    /\ tp_ret = Returned(Vec(Zeros, 1, 0))
    /\ ActionIdle
    /\ SearchIdle
    /\ PlayIdle
    /\ GenerateIdle
    /\ ExpandIdle

ApplyTemperature ==
    /\ tp_op = "none"
    /\ tp_op' = "apply_temperature"
    /\ tp_ret' = apply_temperature(tp_policy, tp_temperature)
    /\ UNCHANGED <<tp_policy, tp_temperature>>

TemperatureNext == ApplyTemperature /\ UNCHANGED <<as_vars, s_vars, pg_vars, g_vars, e_vars>>

SpecTemperature == TemperatureInit /\ [][TemperatureNext]_vars

\* --------------------------------------------------- search specification

\* MCTS(model, num_simulations, temperature = ...) is constructed (c_puct is
\* left to the configuration, as every caller does) and search is about to
\* be called on a game
SearchInit ==
    /\ s_pc = "new"
    /\ s_model = "any"
    /\ s_args \in [num_simulations : 1 .. MaxSimulations, temperature : Temperatures]
    /\ s_mcts = [num_simulations |-> InitNumSimulations(s_args.num_simulations),
                 c_puct |-> ConfigCPuct,
                 temperature |-> InitTemperature(s_args.temperature)]
    /\ s_game \in {ChessGame(board, <<>>) : board \in Boards}
    /\ s_tree = NoTree
    /\ s_sims = 0
    /\ s_reached = Root
    /\ s_value = 0
    /\ s_ret = [move |-> NoMove, visit_counts |-> Vec(Zeros, 1, 0)]
    /\ s_evaluated = {}
    /\ ActionIdle
    /\ TemperatureIdle
    /\ PlayIdle
    /\ GenerateIdle
    /\ ExpandIdle

\* search, lines 147-170: the root is created and expanded
SearchStart ==
    /\ s_pc = "new"
    /\ \E policy \in ModelPolicies(s_model, get_board(s_game)) :
       \E dirichlet_noise \in DirichletSamples(Len(get_legal_moves(s_game))) :
       \E root_policy \in {RootPolicy(s_game, policy, dirichlet_noise)} :
          s_tree' = expand((Root :> MCTSNode(s_game, NoMove, RZero)), Root, root_policy)
    /\ s_evaluated' = {Root}
    /\ s_pc' = "searching"
    /\ UNCHANGED <<s_model, s_args, s_mcts, s_game, s_sims, s_reached, s_value, s_ret>>

SimulateTerminal_counts_twice ==
    /\ s_pc = "searching"
    /\ s_sims < s_mcts.num_simulations
    /\ \E node \in {Selection(s_tree, Root, s_mcts.c_puct)} :
       \E value \in {TerminalValue(s_tree[node].game)} :
          /\ is_game_over(s_tree[node].game)
          /\ s_tree' = backpropagate(backpropagate(s_tree, node, value), node, value)
          /\ s_reached' = node
          /\ s_value' = value
    /\ s_sims' = s_sims + 1
    /\ UNCHANGED <<s_pc, s_model, s_args, s_mcts, s_game, s_ret, s_evaluated>>

\* search, lines 173-192: one iteration of the simulation loop whose
\* selection reaches a node whose game is over
SimulateTerminal ==
    /\ s_pc = "searching"
    /\ s_sims < s_mcts.num_simulations
    /\ \E node \in {Selection(s_tree, Root, s_mcts.c_puct)} :
       \E value \in {TerminalValue(s_tree[node].game)} :
          /\ is_game_over(s_tree[node].game)
          /\ s_tree' = backpropagate(s_tree, node, value)
          /\ s_reached' = node
          /\ s_value' = value
    /\ s_sims' = s_sims + 1
    /\ UNCHANGED <<s_pc, s_model, s_args, s_mcts, s_game, s_ret, s_evaluated>>

SimulateExpand_also_when_game_over ==
    /\ s_pc = "searching"
    /\ s_sims < s_mcts.num_simulations
    /\ \E node \in {Selection(s_tree, Root, s_mcts.c_puct)} :
          /\ \E policy \in ModelPolicies(s_model, get_board(s_tree[node].game)) :
             \E value \in ModelValues(s_model) :
             \E expanded \in {expand(s_tree, node, policy)} :
                /\ s_tree' = backpropagate(expanded, node, value)
                /\ s_value' = value
          /\ s_reached' = node
          /\ s_evaluated' = s_evaluated \cup {node}
    /\ s_sims' = s_sims + 1
    /\ UNCHANGED <<s_pc, s_model, s_args, s_mcts, s_game, s_ret>>

\* search, lines 173-192: one iteration of the simulation loop whose
\* selection reaches a node that is expanded and evaluated
SimulateExpand ==
    /\ s_pc = "searching"
    /\ s_sims < s_mcts.num_simulations
    /\ \E node \in {Selection(s_tree, Root, s_mcts.c_puct)} :
          /\ ~is_game_over(s_tree[node].game)
          /\ \E policy \in ModelPolicies(s_model, get_board(s_tree[node].game)) :
             \E value \in ModelValues(s_model) :
             \E expanded \in {expand(s_tree, node, policy)} :
                /\ s_tree' = backpropagate(expanded, node, value)
                /\ s_value' = value
          /\ s_reached' = node
          /\ s_evaluated' = s_evaluated \cup {node}
    /\ s_sims' = s_sims + 1
    /\ UNCHANGED <<s_pc, s_model, s_args, s_mcts, s_game, s_ret>>

\* search, lines 194-228: the target is built and the move chosen
SearchReturn ==
    /\ s_pc = "searching"
    /\ s_sims = s_mcts.num_simulations
    /\ \E normalized \in {NormalizedVisitCounts(s_tree, s_game)} :
       \E visit_counts \in {apply_temperature(normalized, s_mcts.temperature).value} :
          s_ret' = [move |-> BestMove(s_game, visit_counts), visit_counts |-> visit_counts]
    /\ s_pc' = "returned"
    /\ UNCHANGED <<s_model, s_args, s_mcts, s_game, s_tree, s_sims, s_reached, s_value,
                   s_evaluated>>

SearchNext ==
    \/ SearchStart /\ UNCHANGED <<as_vars, tp_vars, pg_vars, g_vars, e_vars>>
    \/ SimulateTerminal /\ UNCHANGED <<as_vars, tp_vars, pg_vars, g_vars, e_vars>>
    \/ SimulateExpand /\ UNCHANGED <<as_vars, tp_vars, pg_vars, g_vars, e_vars>>
    \/ SearchReturn /\ UNCHANGED <<as_vars, tp_vars, pg_vars, g_vars, e_vars>>

Spec == SearchInit /\ [][SearchNext]_vars

\* MCTS(model, num_simulations, temperature = ...) is constructed with the
\* constant evaluator and search is about to be called on a game
ConstantInit ==
    /\ s_pc = "new"
    /\ s_model = "constant"
    /\ s_args \in [num_simulations : 1 .. MaxConstantSimulations, temperature : Temperatures]
    /\ s_mcts = [num_simulations |-> InitNumSimulations(s_args.num_simulations),
                 c_puct |-> ConfigCPuct,
                 temperature |-> InitTemperature(s_args.temperature)]
    /\ s_game \in {ChessGame(board, <<>>) : board \in Boards}
    /\ s_tree = NoTree
    /\ s_sims = 0
    /\ s_reached = Root
    /\ s_value = 0
    /\ s_ret = [move |-> NoMove, visit_counts |-> Vec(Zeros, 1, 0)]
    /\ s_evaluated = {}
    /\ ActionIdle
    /\ TemperatureIdle
    /\ PlayIdle
    /\ GenerateIdle
    /\ ExpandIdle

SpecConstant == ConstantInit /\ [][SearchNext]_vars

\* MCTS(model, num_simulations, temperature = ...) is constructed with the
\* constant evaluator and any number of simulations from 0, and search is
\* about to be called on a game
CountInit ==
    /\ s_pc = "new"
    /\ s_model = "constant"
    /\ s_args \in [num_simulations : 0 .. MaxSimulations, temperature : Temperatures]
    /\ s_mcts = [num_simulations |-> InitNumSimulations(s_args.num_simulations),
                 c_puct |-> ConfigCPuct,
                 temperature |-> InitTemperature(s_args.temperature)]
    /\ s_game \in {ChessGame(board, <<>>) : board \in Boards}
    /\ s_tree = NoTree
    /\ s_sims = 0
    /\ s_reached = Root
    /\ s_value = 0
    /\ s_ret = [move |-> NoMove, visit_counts |-> Vec(Zeros, 1, 0)]
    /\ s_evaluated = {}
    /\ ActionIdle
    /\ TemperatureIdle
    /\ PlayIdle
    /\ GenerateIdle
    /\ ExpandIdle

SpecCount == CountInit /\ [][SearchNext]_vars

\* ------------------------------------------------ play_game specification

\* play_game(max_moves) is called: lines 42-46
PlayInit ==
    /\ pg_pc = "loop"
    /\ \E max_moves \in 1 .. MaxMoves : pg_max_moves = InitMaxMoves(max_moves)
    /\ pg_game = ChessGame(Board("open", WHITE), <<>>)
    /\ pg_game_data = <<>>
    /\ pg_move_count = 0
    /\ pg_result = 0
    /\ pg_final_data = <<>>
    /\ ActionIdle
    /\ TemperatureIdle
    /\ SearchIdle
    /\ GenerateIdle
    /\ ExpandIdle

PlayPly_records_after_move ==
    /\ pg_pc = "loop"
    /\ ~is_game_over(pg_game)
    /\ pg_move_count < pg_max_moves
    /\ \E returned \in SearchReturns(pg_game) :
          /\ returned.move # NoMove
          /\ pg_game' = make_move(pg_game, returned.move)
          /\ pg_game_data' = Append(pg_game_data,
                                   [board_state |-> board_to_tensor(get_board(pg_game')),
                                    policy |-> returned.visit_counts])
          /\ pg_move_count' = pg_move_count + 1
          /\ pg_pc' = "loop"
    /\ UNCHANGED <<pg_max_moves, pg_result, pg_final_data>>

\* play_game, lines 47-60: one iteration of the loop
PlayPly ==
    /\ pg_pc = "loop"
    /\ ~is_game_over(pg_game)
    /\ pg_move_count < pg_max_moves
    /\ \E returned \in SearchReturns(pg_game) :
          IF returned.move = NoMove
          THEN /\ pg_pc' = "break"
               /\ UNCHANGED <<pg_game, pg_game_data, pg_move_count>>
          ELSE /\ pg_game_data' = Append(pg_game_data,
                                        [board_state |-> board_to_tensor(get_board(pg_game)),
                                         policy |-> returned.visit_counts])
               /\ pg_game' = make_move(pg_game, returned.move)
               /\ pg_move_count' = pg_move_count + 1
               /\ pg_pc' = "loop"
    /\ UNCHANGED <<pg_max_moves, pg_result, pg_final_data>>

\* play_game, lines 62-77: the loop has ended; the records get their results
PlayFinish ==
    /\ \/ pg_pc = "break"
       \/ pg_pc = "loop" /\ (is_game_over(pg_game) \/ pg_move_count >= pg_max_moves)
    /\ \E result \in {TerminalValue(pg_game)} :
          /\ pg_result' = result
          /\ pg_final_data' = FinalData(pg_game_data, result)
    /\ pg_pc' = "done"
    /\ UNCHANGED <<pg_max_moves, pg_game, pg_game_data, pg_move_count>>

PlayNext ==
    \/ PlayPly /\ UNCHANGED <<as_vars, tp_vars, s_vars, g_vars, e_vars>>
    \/ PlayFinish /\ UNCHANGED <<as_vars, tp_vars, s_vars, g_vars, e_vars>>

SpecPlay == PlayInit /\ [][PlayNext]_vars

\* ------------------------------------------- generate_games specification

\* generate_games(num_games, save) is called: lines 90-93
GenerateInit ==
    /\ g_pc = "loop"
    /\ g_args \in [num_games : 1 .. MaxGames, save : {None, "True", "False"}]
    /\ g_num_games = InitNumGames(g_args.num_games)
    /\ g_save = InitSave(g_args.save)
    /\ g_game_idx = 0
    /\ g_all_data = <<>>
    /\ g_files = {}
    /\ g_ret = <<>>
    /\ ActionIdle
    /\ TemperatureIdle
    /\ SearchIdle
    /\ PlayIdle
    /\ ExpandIdle

\* generate_games, lines 96-98: one game is played and its records added
GenerateGame ==
    /\ g_pc = "loop"
    /\ g_game_idx < g_num_games
    /\ \E game_data \in PlayGameReturns : g_all_data' = g_all_data \o game_data
    /\ g_game_idx' = g_game_idx + 1
    /\ UNCHANGED <<g_pc, g_args, g_num_games, g_save, g_files, g_ret>>

\* generate_games, lines 100-111: the data is saved if asked for, and returned
GenerateReturn ==
    /\ g_pc = "loop"
    /\ g_game_idx = g_num_games
    /\ g_files' = IF g_save THEN g_files \cup {GameDataFile(g_all_data)} ELSE g_files
    /\ g_ret' = g_all_data
    /\ g_pc' = "returned"
    /\ UNCHANGED <<g_args, g_num_games, g_save, g_game_idx, g_all_data>>

GenerateNext ==
    \/ GenerateGame /\ UNCHANGED <<as_vars, tp_vars, s_vars, pg_vars, e_vars>>
    \/ GenerateReturn /\ UNCHANGED <<as_vars, tp_vars, s_vars, pg_vars, e_vars>>

SpecGenerate == GenerateInit /\ [][GenerateNext]_vars

\* --------------------------------------------------- expand specification

\* a tree of one node: MCTSNode(game) for a game on any board
ExpandInit ==
    /\ e_pc = "ready"
    /\ \E board \in Boards : e_objects = Objects(<<board>>, <<[board |-> 1, move_history |-> <<>>]>>)
    /\ e_nodes = (Root :> ObjectNode(1, NoMove, RZero))
    /\ e_node = Root
    /\ e_policy = <<>>
    /\ e_legal_moves = <<>>
    /\ e_legal_policy = <<>>
    /\ e_i = 0
    /\ e_expands = 0
    /\ ActionIdle
    /\ TemperatureIdle
    /\ SearchIdle
    /\ PlayIdle
    /\ GenerateIdle

\* expand, lines 75-90: expand(policy) is called on a node without children;
\* the legal moves are listed and the priors computed
ExpandBegin ==
    /\ e_pc = "ready"
    /\ e_expands < MaxExpands
    /\ \E path \in DOMAIN e_nodes :
          /\ Len(e_nodes[path].children) = 0
          /\ \E game \in {GameOf(e_objects, e_nodes[path].game)} :
             \E policy \in ExpandPolicies(get_board(game)) :
                /\ e_node' = path
                /\ e_policy' = policy
                /\ e_legal_moves' = get_legal_moves(game)
                /\ e_legal_policy' = ExpandPriors(game, policy)
    /\ e_i' = 0
    /\ e_pc' = "expanding"
    /\ UNCHANGED <<e_objects, e_nodes, e_expands>>

ExpandChild_moves_own_game ==
    /\ e_pc = "expanding"
    /\ e_i < Len(e_legal_moves)
    /\ \E i \in {e_i + 1} :
       \E copied \in {copy_object(e_objects, e_nodes[e_node].game)} :
       \E new_game \in {Len(copied.games)} :
          /\ e_objects' = make_move_object(copied, e_nodes[e_node].game, e_legal_moves[i])
          /\ e_nodes' = (Append(e_node, i) :> ObjectNode(new_game, e_legal_moves[i], e_legal_policy[i]))
                        @@ [e_nodes EXCEPT ![e_node].children = Append(@, e_legal_moves[i])]
          /\ e_i' = i
    /\ UNCHANGED <<e_pc, e_node, e_policy, e_legal_moves, e_legal_policy, e_expands>>

\* expand, lines 93-98: one iteration of the loop that creates the children
ExpandChild ==
    /\ e_pc = "expanding"
    /\ e_i < Len(e_legal_moves)
    /\ \E i \in {e_i + 1} :
       \E copied \in {copy_object(e_objects, e_nodes[e_node].game)} :
       \E new_game \in {Len(copied.games)} :
          /\ e_objects' = make_move_object(copied, new_game, e_legal_moves[i])
          /\ e_nodes' = (Append(e_node, i) :> ObjectNode(new_game, e_legal_moves[i], e_legal_policy[i]))
                        @@ [e_nodes EXCEPT ![e_node].children = Append(@, e_legal_moves[i])]
          /\ e_i' = i
    /\ UNCHANGED <<e_pc, e_node, e_policy, e_legal_moves, e_legal_policy, e_expands>>

\* expand returns
ExpandEnd ==
    /\ e_pc = "expanding"
    /\ e_i = Len(e_legal_moves)
    /\ e_pc' = "ready"
    /\ e_expands' = e_expands + 1
    /\ UNCHANGED <<e_objects, e_nodes, e_node, e_policy, e_legal_moves, e_legal_policy, e_i>>

ExpandNext ==
    \/ ExpandBegin /\ UNCHANGED <<as_vars, tp_vars, s_vars, pg_vars, g_vars>>
    \/ ExpandChild /\ UNCHANGED <<as_vars, tp_vars, s_vars, pg_vars, g_vars>>
    \/ ExpandEnd /\ UNCHANGED <<as_vars, tp_vars, s_vars, pg_vars, g_vars>>

SpecExpand == ExpandInit /\ [][ExpandNext]_vars

\* ------------------------------------------------------------------ claims

\* the legal moves of a board, as a set
LegalSet(board) == {LegalMoves(board)[i] : i \in 1 .. Len(LegalMoves(board))}

\* C3: decoding the index of a legal move gives that move back, promotions
\* to rook, bishop and knight included.
C3_RoundTrip == as_op = "round_trip" => as_ret = as_arg

\* C4: every legal move gets an index in [0, 4096), and no other legal move
\* of the same position gets the same index.
C4_Injective ==
    as_op = "move_to_index" =>
        /\ as_ret \in ActionIndices
        /\ \A m \in LegalSet(as_board) : m # as_arg => move_to_index(m, as_board) # as_ret

\* C5: the mask has length 4096, and its entry i is 1 exactly when some legal
\* move of the position encodes to i, and 0 otherwise.
C5_MaskExact ==
    as_op = "create_move_mask" =>
        /\ DOMAIN as_ret \subseteq ActionIndices
        /\ \A i \in ActionIndices :
              VecAt(as_ret, i) =
                  IF \E m \in LegalSet(as_board) : m.from_square * NumSquares + m.to_square = i
                  THEN 1 ELSE 0

C5_Witness ==
    /\ as_op = "create_move_mask"
    /\ as_board.kind = "kpromo"
    /\ VecAt(as_ret, 48 * NumSquares + 56) = 1
    /\ VecAt(as_ret, 0) = 0

\* C6: for every index in [0, 4096), index_to_move returns a legal move
\* whose squares are those of the index, or no move when no legal move has
\* those squares; it never returns an illegal move.
C6_DecodeLegalOrNone ==
    as_op = "index_to_move" =>
        LET matching == {m \in LegalSet(as_board) :
                            /\ m.from_square = as_arg \div NumSquares
                            /\ m.to_square = as_arg % NumSquares}
        IN  IF as_ret = NoMove
            THEN matching = {}
            ELSE as_ret \in matching

C6_Witness ==
    /\ as_op = "index_to_move"
    /\ as_ret # NoMove
    /\ as_ret.promotion = "QUEEN"
    /\ as_ret \in LegalSet(as_board)

\* C9: apply_temperature(policy, 1.0) returns a vector equal to its input,
\* entry for entry.
C9_TemperatureOneIdentity ==
    (tp_op = "apply_temperature" /\ tp_temperature = Temperature(1, 1)) =>
        /\ tp_ret.raised = "no"
        /\ tp_ret.value = tp_policy

C9_Witness ==
    /\ tp_op = "apply_temperature"
    /\ tp_temperature = Temperature(1, 1)
    /\ tp_ret.value = tp_policy
    /\ \E i, j \in DOMAIN tp_policy.w : 0 < tp_policy.w[i] /\ tp_policy.w[i] < tp_policy.w[j]

\* the indices where the vector has its largest entry
ArgMax(w) == {i \in DOMAIN w : \A j \in DOMAIN w : w[j] <= w[i]}

\* entry 1 at index i and 0 everywhere else
IsOneHot(vec, i) ==
    /\ vec.w[i] = vec.den
    /\ vec.den > 0
    /\ vec.epsd = 0
    /\ \A j \in DOMAIN vec.w : j # i => vec.w[j] = 0

\* C10: for a target with a unique maximum, apply_temperature(target, 0)
\* raises no numeric error and returns the one-hot vector on the maximum.
C10_TemperatureZeroOneHot ==
    (/\ tp_op = "apply_temperature"
     /\ tp_temperature.num = 0
     /\ Cardinality(ArgMax(tp_policy.w)) = 1) =>
        /\ tp_ret.raised = "no"
        /\ \A i \in ArgMax(tp_policy.w) : IsOneHot(tp_ret.value, i)

\* the outcome of a board for the side to move: -1 when it is checkmated
\* (it has lost; the side to move can never have won), 0 for a draw, no
\* result while the game is not over
OutcomeForSideToMove(board) ==
    CASE board.kind = "mate" -> Result(-1)
      [] board.kind \in {"stale", "drawn"} -> Result(0)
      [] OTHER -> NoResult

\* C2: get_result gives the outcome for the player to move: 1 iff the side
\* to move has won, -1 iff it has lost (is checkmated), 0 iff drawn, None iff
\* the game is not over; a terminal node backs up this value.
C2_ResultForSideToMove ==
    /\ \A path \in DOMAIN s_tree :
          get_result(s_tree[path].game) = OutcomeForSideToMove(s_tree[path].game.board)
    /\ (s_sims > 0 /\ is_game_over(s_tree[s_reached].game)) =>
          Result(s_value) = OutcomeForSideToMove(s_tree[s_reached].game.board)

\* the sum of a vector is 1 within 1e-6: the numerators sum to den, and the
\* 1e-8 * epsd added to den is within the tolerance (entries below 10^5)
SumsToOne(vec) == VecSum(vec.w) = vec.den /\ vec.epsd <= 100 * vec.den

\* C7: whenever the root has a legal move and num_simulations >= 1, the
\* target search returns sums to 1 within 1e-6, also when legal moves share
\* an index and when the uniform fallback is taken.
C7_TargetSumsToOne ==
    (/\ s_pc = "returned"
     /\ Len(get_legal_moves(s_game)) > 0
     /\ s_mcts.num_simulations >= 1) =>
        SumsToOne(s_ret.visit_counts)

\* C8: on a position with no legal move search returns no move and a target
\* without any simulation: no iteration of the loop runs and the root's
\* visit_count stays 0.
C8_NoSimulationWithoutMoves ==
    (s_pc = "returned" /\ Len(get_legal_moves(s_game)) = 0) =>
        /\ s_ret.move = NoMove
        /\ s_sims = 0
        /\ s_tree[Root].visit_count = 0

\* C1: when the game ends in a decisive result r for the player to move in
\* the final position, the record of every ply whose side to move is the
\* side to move of the final position has outcome r, and every other record
\* has outcome -r, whatever the parity of the number of records.
C1_LabelsForSideToMove ==
    (pg_pc = "done" /\ pg_game.board.kind = "mate") =>
        LET r == OutcomeForSideToMove(pg_game.board).value
            final_side == board_to_tensor(pg_game.board).side_to_move
        IN  \A k \in 1 .. Len(pg_final_data) :
               pg_final_data[k].position_result =
                   IF pg_final_data[k].board_state.side_to_move = final_side THEN r ELSE -r

\* C14: when play_game has stopped at max_moves plies with the game not
\* over, every returned record has outcome 0.
C14_MaxMovesIsDraw ==
    (pg_pc = "done" /\ ~is_game_over(pg_game) /\ pg_move_count >= pg_max_moves) =>
        \A k \in 1 .. Len(pg_final_data) : pg_final_data[k].position_result = 0

C14_Witness ==
    /\ pg_pc = "done"
    /\ ~is_game_over(pg_game)
    /\ pg_move_count = pg_max_moves
    /\ Len(pg_final_data) >= 2
    /\ \A k \in 1 .. Len(pg_final_data) : pg_final_data[k].position_result = 0

RECURSIVE PositionBefore(_, _)
\* the board before ply number k (from 1) of a game from the starting position
PositionBefore(move_history, k) ==
    IF k = 1 THEN Board("open", WHITE)
    ELSE Push(PositionBefore(move_history, k - 1), move_history[k - 1])

\* C15: record number k holds the encoding of the position before move
\* number k was applied (it was appended before the move was made); the
\* records are as many as the moves applied and at most max_moves; nothing
\* is recorded when the loop stops for want of a move.
C15_RecordBeforeMove ==
    pg_pc \in {"loop", "break", "done"} =>
        /\ Len(pg_game_data) = Len(pg_game.move_history)
        /\ Len(pg_game_data) = pg_move_count
        /\ pg_move_count <= pg_max_moves
        /\ \A k \in 1 .. Len(pg_game_data) :
              pg_game_data[k].board_state =
                  board_to_tensor(PositionBefore(pg_game.move_history, k))
        /\ pg_pc = "done" => Len(pg_final_data) = pg_move_count

C15_Witness ==
    /\ pg_pc = "done"
    /\ Len(pg_final_data) >= 3
    /\ pg_final_data[3].board_state = board_to_tensor(PositionBefore(pg_game.move_history, 3))
    /\ pg_final_data[3].board_state # board_to_tensor(PositionBefore(pg_game.move_history, 2))

\* C16: generate_games writes nothing to storage, whatever its arguments
\* (also with save left to its default): it only returns the aggregate.
C16_NeverPersists ==
    /\ g_files = {}
    /\ g_pc = "returned" => g_ret = g_all_data

\* path a is the path of path b or of one of its ancestors
IsPrefix(a, b) == Len(a) <= Len(b) /\ SubSeq(b, 1, Len(a)) = a

\* a node's counters before a simulation step: those of the tree, or 0 for
\* a node the step creates
CountersBefore(path) ==
    IF path \in DOMAIN s_tree
    THEN [visit_count |-> s_tree[path].visit_count, value_sum |-> s_tree[path].value_sum]
    ELSE [visit_count |-> 0, value_sum |-> 0]

\* C11: a simulation that backs the value v up from a node adds 1 to the
\* visit_count and (-1)^k * v to the value_sum of the node k edges above it,
\* for every k from 0 (the node) up to the root, and changes the counters of
\* no other node.
C11_BackpropagateParity ==
    [][(s_sims' = s_sims + 1) =>
          \A path \in DOMAIN s_tree' :
             LET k == Len(s_reached') - Len(path)
                 before == CountersBefore(path)
             IN  IF IsPrefix(path, s_reached')
                 THEN /\ s_tree'[path].visit_count = before.visit_count + 1
                      /\ s_tree'[path].value_sum =
                            before.value_sum + (IF k % 2 = 0 THEN s_value' ELSE -s_value')
                 ELSE /\ s_tree'[path].visit_count = before.visit_count
                      /\ s_tree'[path].value_sum = before.value_sum]_vars

C11_Witness ==
    /\ s_sims = 2
    /\ Len(s_reached) = 2
    /\ s_value = 1
    /\ s_tree[s_reached].value_sum = 1
    /\ s_tree[Parent(s_reached)].visit_count = 2
    /\ s_tree[Root].visit_count = 2

\* the position a node of the object-level tree holds now
PositionOf(objects, nodes, path) == objects.boards[objects.games[nodes[path].game].board]

\* every node but the root holds its parent's position with its own move
\* applied, and no two nodes refer to one game object or one board object
OwnPositions ==
    /\ \A path \in DOMAIN e_nodes :
          path # Root =>
             PositionOf(e_objects, e_nodes, path) =
                 Push(PositionOf(e_objects, e_nodes, Parent(path)), e_nodes[path].move)
    /\ \A p, q \in DOMAIN e_nodes :
          p # q => /\ e_nodes[p].game # e_nodes[q].game
                   /\ e_objects.games[e_nodes[p].game].board # e_objects.games[e_nodes[q].game].board

\* C17: every non-root node's position is its parent's position with the
\* node's move applied, no two nodes share a position object, and no step of
\* expand changes the position a node already holds.
C17_PositionOwnership ==
    /\ []OwnPositions
    /\ [][\A path \in DOMAIN e_nodes :
             PositionOf(e_objects', e_nodes', path) = PositionOf(e_objects, e_nodes, path)]_vars

C17_Witness ==
    /\ e_pc = "ready"
    /\ e_expands = 2
    /\ \E path \in DOMAIN e_nodes :
          /\ Len(path) = 2
          /\ Len(e_nodes[Root].children) >= 2
          /\ PositionOf(e_objects, e_nodes, path) # PositionOf(e_objects, e_nodes, Parent(path))

\* the priors of the children of a node, in insertion order
ChildPriors(nodes, path) ==
    [i \in 1 .. Len(nodes[path].children) |-> nodes[Append(path, i)].prior]

\* C18: after expand on a node with at least one legal move, whatever the
\* policy (negative entries too), every child's prior is in [0, 1] and the
\* priors of the children sum to 1.
C18_PriorsAreDistribution ==
    (e_pc = "ready" /\ e_expands > 0 /\ Len(e_legal_moves) > 0) =>
        LET priors == ChildPriors(e_nodes, e_node)
        IN  /\ \A i \in 1 .. Len(priors) :
                  ~RLess(priors[i], RZero) /\ ~RLess(ROne, priors[i])
            /\ RSeqSum(priors, Len(priors)) = ROne

\* the policy summed over the legal moves of a board, each at its index
MassOnLegalMoves(policy, board) ==
    RSeqSum([i \in 1 .. Len(LegalMoves(board)) |->
                PolicyAt(policy, move_to_index(LegalMoves(board)[i], board))],
            Len(LegalMoves(board)))

\* C19: when the policy summed over the legal moves is 0, expand on a node
\* with k >= 1 legal moves gives each of the k children the prior 1/k.
C19_UniformFallback ==
    (/\ e_pc = "ready" /\ e_expands > 0 /\ Len(e_legal_moves) > 0
     /\ MassOnLegalMoves(e_policy, PositionOf(e_objects, e_nodes, e_node)) = RZero) =>
        /\ Len(e_nodes[e_node].children) = Len(e_legal_moves)
        /\ \A i \in 1 .. Len(e_legal_moves) :
              e_nodes[Append(e_node, i)].prior = Rat(1, Len(e_legal_moves))

C19_Witness ==
    /\ e_pc = "ready"
    /\ e_expands > 0
    /\ Len(e_legal_moves) = 3
    /\ \A idx \in LegalIndices(PositionOf(e_objects, e_nodes, e_node)) : e_policy[idx] = RZero
    /\ e_policy[IllegalIndex] # RZero
    /\ \A i \in 1 .. 3 : e_nodes[Append(e_node, i)].prior = Rat(1, 3)

\* the number of the child select_child returns for a node
SelectedChild(tree, path) == select_child(tree, path, ConfigCPuct)[Len(path) + 1]

\* C20: for every node with children, select_child returns a child whose
\* score Q + c_puct * P * sqrt(N) / (1 + n) no other child exceeds, and every
\* child before it in insertion order has a strictly smaller score.
C20_SelectsFirstMaximum ==
    \A path \in DOMAIN s_tree :
       is_expanded(s_tree[path]) =>
          LET n == s_tree[path].visit_count
              best == s_tree[Append(path, SelectedChild(s_tree, path))]
          IN  /\ SelectedChild(s_tree, path) \in 1 .. Len(s_tree[path].children)
              /\ \A i \in 1 .. Len(s_tree[path].children) :
                    ~ScoreGreater(s_tree[Append(path, i)], best, ConfigCPuct, n)
              /\ \A i \in 1 .. (SelectedChild(s_tree, path) - 1) :
                    ScoreGreater(best, s_tree[Append(path, i)], ConfigCPuct, n)

C20_Witness ==
    /\ s_pc = "searching"
    /\ s_sims = 1
    /\ Len(s_tree[Root].children) = 3
    /\ SelectedChild(s_tree, Root) = 2
    /\ ScoreGreater(s_tree[<<2>>], s_tree[<<1>>], ConfigCPuct, 1)
    /\ ~ScoreGreater(s_tree[<<2>>], s_tree[<<3>>], ConfigCPuct, 1)
    /\ ~ScoreGreater(s_tree[<<3>>], s_tree[<<2>>], ConfigCPuct, 1)

RECURSIVE ChildVisits(_, _)
\* the sum of the visit_count of the first i children of the root
ChildVisits(tree, i) ==
    IF i = 0 THEN 0 ELSE tree[<<i>>].visit_count + ChildVisits(tree, i - 1)

RootChildVisits == ChildVisits(s_tree, Len(s_tree[Root].children))

\* C12 as stated: for a root with at least one legal move, when search has
\* run its N simulations with the constant evaluator, the visit counts of
\* the root's children sum to N.
C12_ChildVisitsSumToN ==
    (s_pc = "returned" /\ Len(get_legal_moves(s_game)) >= 1) =>
        RootChildVisits = s_mcts.num_simulations

\* C12, amended: for a root whose game is not over, with the constant
\* evaluator the visit counts of the root's children sum to the number of
\* simulations run so far, hence to N when search returns.
C12_ChildVisitsSumToN_RootNotOver ==
    (s_pc \in {"searching", "returned"} /\ ~is_game_over(s_game)) =>
        /\ Len(s_tree[Root].children) >= 1
        /\ RootChildVisits = s_sims
        /\ s_pc = "returned" => RootChildVisits = s_mcts.num_simulations

C12_Witness ==
    /\ s_pc = "returned"
    /\ ~is_game_over(s_game)
    /\ s_mcts.num_simulations = MaxConstantSimulations
    /\ Len(s_reached) = 2
    /\ \E i \in 1 .. Len(s_tree[Root].children) : s_tree[<<i>>].visit_count >= 2
    /\ RootChildVisits = MaxConstantSimulations

\* score < 0 in select_child, for a child of a node visited n times
ScoreNegative(child, c_puct, n) ==
    GreaterThanTimesSqrt(RNeg(get_value(child)), ExplorationFactor(child, c_puct), n)

\* the nodes the selection of the next simulation calls select_child on
SelectChildCalls ==
    {path \in DOMAIN s_tree :
        /\ is_expanded(s_tree[path]) /\ ~is_game_over(s_tree[path].game)
        /\ path = SubSeq(Selection(s_tree, Root, s_mcts.c_puct), 1, Len(path))}

\* a child of one of these calls has a negative score
SomeScoreNegative ==
    \E path \in SelectChildCalls : \E i \in 1 .. Len(s_tree[path].children) :
       ScoreNegative(s_tree[Append(path, i)], s_mcts.c_puct, s_tree[path].visit_count)

\* a node whose game is won or lost has been visited and its result backed up
DecisiveTerminalVisited ==
    \E path \in DOMAIN s_tree :
       /\ s_tree[path].visit_count > 0
       /\ is_game_over(s_tree[path].game)
       /\ TerminalValue(s_tree[path].game) # 0

\* C13 as stated: with the constant evaluator, in every select_child call
\* of a search no child's score is negative, also after terminal positions
\* have been visited and their results backed up.
C13_NoNegativeScore ==
    (s_pc = "searching" /\ s_sims < s_mcts.num_simulations) => ~SomeScoreNegative

\* C13, amended: with the constant evaluator, in every select_child call
\* made while no won or lost position of the tree has been visited, no
\* child's score is negative; drawn positions may have been visited.
C13_NoNegativeScore_NoDecisiveTerminal ==
    (s_pc = "searching" /\ s_sims < s_mcts.num_simulations /\ ~DecisiveTerminalVisited) =>
        ~SomeScoreNegative

C13_Witness ==
    /\ s_pc = "searching"
    /\ s_sims < s_mcts.num_simulations
    /\ ~DecisiveTerminalVisited
    /\ \E path \in SelectChildCalls : Len(path) >= 1
    /\ \E path \in DOMAIN s_tree :
          s_tree[path].visit_count > 0 /\ is_game_over(s_tree[path].game)

\* the numerator of the returned target at the index of a move of the root
TargetAt(move) == VecAt(s_ret.visit_counts.w, move_to_index(move, get_board(s_game)))

\* C21: when the root has at least one legal move, search returns a legal
\* move whose index holds the highest target probability among the legal
\* moves, and every legal move before it in legal-move order has a
\* strictly smaller target probability.
C21_ReturnsFirstBestLegalMove ==
    (s_pc = "returned" /\ Len(get_legal_moves(s_game)) >= 1) =>
        LET legal_moves == get_legal_moves(s_game)
        IN  \E k \in 1 .. Len(legal_moves) :
               /\ s_ret.move = legal_moves[k]
               /\ \A i \in 1 .. Len(legal_moves) : TargetAt(legal_moves[i]) <= TargetAt(s_ret.move)
               /\ \A i \in 1 .. (k - 1) : TargetAt(legal_moves[i]) < TargetAt(s_ret.move)

C21_Witness ==
    /\ s_pc = "returned"
    /\ Len(get_legal_moves(s_game)) = 3
    /\ s_ret.move = get_legal_moves(s_game)[2]
    /\ TargetAt(get_legal_moves(s_game)[1]) > 0
    /\ TargetAt(get_legal_moves(s_game)[1]) = TargetAt(get_legal_moves(s_game)[3])
    /\ TargetAt(get_legal_moves(s_game)[1]) < TargetAt(get_legal_moves(s_game)[2])

\* search, line 201: total_visits, the sum of the visit counts written into
\* the target vector
TotalVisits == VecSum(VisitCountLoop(s_tree, get_board(s_game), Zeros, 1))

\* C22: whenever num_simulations >= 1 and the root has at least one legal
\* move, the total of the visit counts written into the target vector is
\* greater than 0 when search builds the target, so the uniform fallback
\* is not taken.
C22_FallbackNeverTaken ==
    (/\ s_pc = "returned"
     /\ s_mcts.num_simulations >= 1
     /\ Len(get_legal_moves(s_game)) >= 1) =>
        TotalVisits > 0

\* C25: with temperature 1, for every legal move m of the root the returned
\* target at move_to_index(m) is visit_count(child for m) divided by the sum
\* of the visit counts of all root children (where that sum is positive),
\* and the target is 0 at every index no legal move encodes to.
C25_TargetIsVisitShare ==
    (/\ s_pc = "returned"
     /\ s_mcts.temperature = Temperature(1, 1)
     /\ RootChildVisits > 0) =>
        /\ \A i \in 1 .. Len(get_legal_moves(s_game)) :
              TargetAt(get_legal_moves(s_game)[i]) * RootChildVisits =
                  s_tree[<<i>>].visit_count * s_ret.visit_counts.den
        /\ \A idx \in DOMAIN s_ret.visit_counts.w :
              idx \notin LegalIndices(get_board(s_game)) => s_ret.visit_counts.w[idx] = 0

\* C29: with temperature 1 and a root with at least one legal move, the
\* move search returns is the move of a root child whose visit_count no
\* other root child exceeds, also when promotions share an action index.
C29_ReturnsMostVisitedChild ==
    (/\ s_pc = "returned"
     /\ s_mcts.temperature = Temperature(1, 1)
     /\ Len(get_legal_moves(s_game)) >= 1) =>
        \E k \in 1 .. Len(s_tree[Root].children) :
           /\ s_tree[Root].children[k] = s_ret.move
           /\ \A i \in 1 .. Len(s_tree[Root].children) :
                 s_tree[<<i>>].visit_count <= s_tree[<<k>>].visit_count

\* node `path` is terminal and has been reached by a simulation: a node
\* whose game is over ends the selection, so it is visited only as the
\* reached node
TerminalReached(path) ==
    s_tree[path].visit_count > 0 /\ is_game_over(s_tree[path].game)

\* the reached terminal nodes in `paths` have no children and no evaluator
\* query, and a simulation that ends at one backs up get_result (0 for None)
TerminalsNeverExpanded(paths) ==
    /\ \A path \in paths :
          TerminalReached(path) =>
             /\ s_tree[path].children = <<>>
             /\ path \notin s_evaluated
    /\ (s_sims > 0 /\ s_reached \in paths /\ is_game_over(s_tree[s_reached].game)) =>
          s_value = TerminalValue(s_tree[s_reached].game)

\* C23 as stated: a node reached during a simulation whose position is
\* terminal has no children at any time, the evaluator is not queried for
\* it, and every visit backs up the rules engine's result for its position.
C23_TerminalNeverExpanded ==
    s_pc \in {"searching", "returned"} => TerminalsNeverExpanded(DOMAIN s_tree)

\* C23, amended: the same for every node other than the root; the root is
\* evaluated and expanded before the first simulation whether or not its
\* position is terminal.
C23_NonRootTerminalNeverExpanded ==
    s_pc \in {"searching", "returned"} => TerminalsNeverExpanded(DOMAIN s_tree \ {Root})

C23_Witness ==
    /\ s_pc = "returned"
    /\ s_sims = 2
    /\ s_reached # Root
    /\ \E path \in DOMAIN s_tree \ {Root} :
          /\ TerminalReached(path)
          /\ Len(get_legal_moves(s_tree[path].game)) >= 1
          /\ s_tree[path].children = <<>>
    /\ Root \in s_evaluated

\* C24: for every num_simulations value n >= 0 passed to MCTS, search has
\* executed the select/evaluate/backpropagate cycle exactly n times when it
\* returns, and never more than n times before.
C24_ExactlyNSimulations ==
    /\ s_sims <= s_args.num_simulations
    /\ s_pc = "returned" => s_sims = s_args.num_simulations

\* the terminal result for the player to move in the final position of
\* play_game: 0 when the game is drawn or not over
FinalResultForSideToMove ==
    IF OutcomeForSideToMove(pg_game.board) = NoResult THEN 0
    ELSE OutcomeForSideToMove(pg_game.board).value

\* C26: with result the terminal result for the player to move in the final
\* position, play_game gives every record at an even ply index the outcome
\* result and every record at an odd ply index -result, so adjacent records
\* carry negated outcomes.
C26_BackfillByIndexParity ==
    pg_pc = "done" =>
        /\ \A k \in 1 .. Len(pg_final_data) :
              pg_final_data[k].position_result =
                  IF (k - 1) % 2 = 0 THEN FinalResultForSideToMove ELSE -FinalResultForSideToMove
        /\ \A k \in 1 .. (Len(pg_final_data) - 1) :
              pg_final_data[k + 1].position_result = -pg_final_data[k].position_result

\* the game object search is called with: the first object, which the root holds
CallerGame == 1

\* C27: search leaves the caller's game unchanged: the root holds the very
\* object passed in, and no step changes the board that object refers to,
\* its position and side to move, or its move history.
C27_CallerGameUnchanged ==
    /\ [](e_nodes[Root].game = CallerGame)
    /\ [][/\ e_objects'.games[CallerGame].board = e_objects.games[CallerGame].board
          /\ GameOf(e_objects', CallerGame) = GameOf(e_objects, CallerGame)]_vars

C27_Witness ==
    /\ e_pc = "ready"
    /\ e_expands = 2
    /\ e_nodes[Root].game = CallerGame
    /\ Len(e_nodes[Root].children) = 3
    /\ Len(e_objects.games) >= 5
    /\ GameOf(e_objects, CallerGame) = ChessGame(Board("open", WHITE), <<>>)
    /\ \A g \in 2 .. Len(e_objects.games) : GameOf(e_objects, g) # GameOf(e_objects, CallerGame)

RECURSIVE ChildVisitsOf(_, _, _)
\* the sum of the visit_count of the first i children of node `path`
ChildVisitsOf(tree, path, i) ==
    IF i = 0 THEN 0
    ELSE tree[Append(path, i)].visit_count + ChildVisitsOf(tree, path, i - 1)

\* C28: after every completed simulation the root's visit_count is the
\* number of simulations completed; for a root that is not over it is also
\* the sum of its children's visit counts; and every other node that has
\* children has visit_count 1 plus the sum of its children's visit counts.
C28_VisitCountConservation ==
    s_pc \in {"searching", "returned"} =>
        /\ s_tree[Root].visit_count = s_sims
        /\ ~is_game_over(s_game) =>
              s_tree[Root].visit_count =
                  ChildVisitsOf(s_tree, Root, Len(s_tree[Root].children))
        /\ \A path \in DOMAIN s_tree :
              (path # Root /\ is_expanded(s_tree[path])) =>
                 s_tree[path].visit_count =
                     1 + ChildVisitsOf(s_tree, path, Len(s_tree[path].children))

C28_Witness ==
    /\ s_pc = "searching"
    /\ s_sims = 2
    /\ ~is_game_over(s_game)
    /\ Len(s_reached) = 2
    /\ Len(s_tree[Parent(s_reached)].children) >= 2
    /\ s_tree[Parent(s_reached)].visit_count = 2
    /\ s_tree[s_reached].visit_count = 1
    /\ ChildVisitsOf(s_tree, Root, Len(s_tree[Root].children)) = 2

\* C30: a simulation expands at most one node, the reached node and only if
\* its game is not over; it adds exactly 1 to the visit_count of each node
\* on the path from the reached node to the root and leaves visit_count,
\* value_sum, prior and children of every other node unchanged; no step of
\* a search removes a node or decreases a visit_count.
C30_SimulationChangesOnlyItsPath ==
    [][/\ DOMAIN s_tree \subseteq DOMAIN s_tree'
       /\ \A path \in DOMAIN s_tree : s_tree'[path].visit_count >= s_tree[path].visit_count
       /\ (s_sims' = s_sims + 1) =>
             /\ \A path \in DOMAIN s_tree' \ DOMAIN s_tree :
                   /\ Parent(path) = s_reached'
                   /\ ~is_game_over(s_tree[s_reached'].game)
                   /\ s_tree'[path].children = <<>>
             /\ \A path \in DOMAIN s_tree :
                   /\ s_tree'[path].prior = s_tree[path].prior
                   /\ s_tree'[path].children # s_tree[path].children =>
                         /\ path = s_reached'
                         /\ ~is_game_over(s_tree[path].game)
                   /\ IF IsPrefix(path, s_reached')
                      THEN s_tree'[path].visit_count = s_tree[path].visit_count + 1
                      ELSE /\ s_tree'[path].visit_count = s_tree[path].visit_count
                           /\ s_tree'[path].value_sum = s_tree[path].value_sum]_vars

C30_Witness ==
    /\ s_pc = "searching"
    /\ s_sims = 2
    /\ Len(s_reached) = 2
    /\ is_expanded(s_tree[s_reached])
    /\ \E i \in 1 .. Len(s_tree[Root].children) :
          /\ <<i>> # Parent(s_reached)
          /\ s_tree[<<i>>].visit_count = 0
          /\ ~is_expanded(s_tree[<<i>>])
    /\ s_tree[Root].visit_count = 2

====
